---- MODULE Spec2Model ----
(***************************************************************************)
(* Model of app.py: the ZIP -> providers service.                          *)
(*                                                                         *)
(* A text is a sequence of one-character strings, so that zfill, strip,    *)
(* split, isdigit and the ordering of sorted() are computed and not        *)
(* assumed.  A missing CSV cell (pandas NaN) is the value NaN.  A data     *)
(* frame is a record [exists, cols, rows]; cols holds the column labels    *)
(* as they are after _normalize_cols, rows is a sequence of functions      *)
(* from column label to cell.  A dict is a function on its key set.        *)
(***************************************************************************)
EXTENDS Integers, Sequences, FiniteSets, TLC

VARIABLES
    files,             \* the four CSV files on disk
    id_to_name,        \* app.py:16
    zip_to_providers,  \* app.py:17
    zip_to_counties,   \* app.py:18
    pc,                \* position of the module's top-level code
    attempted,         \* builders called by load_zip_to_providers, in order
    adopted,           \* builder whose result load_zip_to_providers kept
    request,           \* the request being answered
    response           \* the answer to it

vars == <<files, id_to_name, zip_to_providers, zip_to_counties, pc,
          attempted, adopted, request, response>>

-----------------------------------------------------------------------------
(* Bounds of the model *)

\* rows per file in Spec, in SpecDirect (Direct source) and in SpecJoin
\* (county-join sources)
MaxRows == 2
MaxDirectRows == 2
MaxJoinRows == 2

-----------------------------------------------------------------------------
(* Program constants *)

ZipWidth == 5
MinZipLen == 3
MaxZipLen == 10

UNKNOWN_PROVIDER == <<"U","n","k","n","o","w","n"," ","p","r","o","v","i","d","e","r">>
DEFAULT_SOURCE == "unique"

-----------------------------------------------------------------------------
(* Text *)

NaN == <<"NaN">>
NAN_TEXT == <<"n","a","n">>

AsciiOrder ==
    <<" ", ",", "0", "1", "2", "3", "4", "5", "6", "7", "8", "9", ";",
      "A", "B", "C", "K", "Q", "U", "[", "]",
      "a", "d", "e", "i", "k", "n", "o", "p", "r", "s", "t", "u", "v", "w",
      "x", "y">>

Ord(c) == CHOOSE i \in 1..Len(AsciiOrder) : AsciiOrder[i] = c

DigitChars == {"0", "1", "2", "3", "4", "5", "6", "7", "8", "9"}

DigitVal(c) == Ord(c) - Ord("0")

\* str(x) of a cell: NaN prints as "nan"
Str(x) == IF x = NaN THEN NAN_TEXT ELSE x

RECURSIVE Zeros(_)
Zeros(n) == IF n <= 0 THEN << >> ELSE <<"0">> \o Zeros(n - 1)

\* str.zfill(width): pads on the left, never truncates
zfill(s, width) == IF Len(s) >= width THEN s ELSE Zeros(width - Len(s)) \o s

\* str.isdigit()
isdigit(s) == Len(s) > 0 /\ \A i \in 1..Len(s) : s[i] \in DigitChars

RECURSIVE ToInt(_)
ToInt(s) ==
    IF Len(s) = 0 THEN 0
    ELSE 10 * ToInt(SubSeq(s, 1, Len(s) - 1)) + DigitVal(s[Len(s)])

RECURSIVE lstrip(_)
lstrip(s) == IF Len(s) > 0 /\ s[1] = " " THEN lstrip(Tail(s)) ELSE s

RECURSIVE rstrip(_)
rstrip(s) ==
    IF Len(s) > 0 /\ s[Len(s)] = " " THEN rstrip(SubSeq(s, 1, Len(s) - 1)) ELSE s

strip(s) == rstrip(lstrip(s))

Contains(s, c) == \E i \in 1..Len(s) : s[i] = c

endswith(s, suffix) ==
    /\ Len(s) >= Len(suffix)
    /\ SubSeq(s, Len(s) - Len(suffix) + 1, Len(s)) = suffix

\* s.replace(c, "")
RECURSIVE Remove(_, _)
Remove(s, c) ==
    IF Len(s) = 0 THEN << >>
    ELSE IF s[1] = c THEN Remove(Tail(s), c)
    ELSE <<s[1]>> \o Remove(Tail(s), c)

\* s.split(c): the sequence of the pieces, empty pieces included
RECURSIVE split(_, _)
split(s, c) ==
    IF ~Contains(s, c) THEN <<s>>
    ELSE LET i == CHOOSE k \in 1..Len(s) :
                      s[k] = c /\ \A j \in 1..(k - 1) : s[j] # c
         IN <<SubSeq(s, 1, i - 1)>> \o split(SubSeq(s, i + 1, Len(s)), c)

\* the order of Python's str comparison
RECURSIVE LexLess(_, _)
LexLess(s, t) ==
    IF Len(t) = 0 THEN FALSE
    ELSE IF Len(s) = 0 THEN TRUE
    ELSE IF s[1] = t[1] THEN LexLess(Tail(s), Tail(t))
    ELSE Ord(s[1]) < Ord(t[1])

Range(f) == {f[i] : i \in DOMAIN f}

\* sorted(set(...)) of integers
RECURSIVE SortedInts(_)
SortedInts(S) ==
    IF S = {} THEN << >>
    ELSE LET m == CHOOSE x \in S : \A y \in S : x <= y
         IN <<m>> \o SortedInts(S \ {m})

\* sorted(set(...)) of texts
RECURSIVE SortedTexts(_)
SortedTexts(S) ==
    IF S = {} THEN << >>
    ELSE LET m == CHOOSE x \in S : \A y \in S : x = y \/ LexLess(x, y)
         IN <<m>> \o SortedTexts(S \ {m})

EmptyDict == << >>

\* d[k] = v
DictSet(d, k, v) == [x \in (DOMAIN d) \cup {k} |-> IF x = k THEN v ELSE d[x]]

\* d.get(k, default)
DictGet(d, k, default) == IF k \in DOMAIN d THEN d[k] ELSE default

\* pd.to_numeric(cell, errors="coerce").astype("Int64"): an integer, or <NA>.
\* The cells of the model are digit texts, other texts and NaN.
to_numeric(cell) ==
    IF cell # NaN /\ isdigit(cell)
    THEN [na |-> FALSE, v |-> ToInt(cell)]
    ELSE [na |-> TRUE, v |-> 0]

\* for cand in cands: if cand in cols: ... break
NoCol == "None"

RECURSIVE FirstPresent(_, _)
FirstPresent(cands, cols) ==
    IF Len(cands) = 0 THEN NoCol
    ELSE IF cands[1] \in cols THEN cands[1]
    ELSE FirstPresent(Tail(cands), cols)

\* [s.strip() for s in pieces if s.strip()]
RECURSIVE StripPieces(_)
StripPieces(pieces) ==
    IF Len(pieces) = 0 THEN << >>
    ELSE (IF Len(strip(pieces[1])) > 0 THEN <<strip(pieces[1])>> ELSE << >>)
         \o StripPieces(Tail(pieces))

-----------------------------------------------------------------------------
(* ZIP -> providers from the prebuilt unique CSV: app.py:69-118 *)

DIRECT_COUNTY_CANDIDATES == <<"county_name", "geography_desc", "county", "county_names">>

COUNTY_SUFFIX == <<" ", "C", "o", "u", "n", "t", "y">>

\* app.py:83-84: the rows left by dropna(subset=["provider_id"])
LongRows(rows) == SelectSeq(rows, LAMBDA r : ~to_numeric(r["provider_id"]).na)

\* app.py:85: groupby("zip") keys, in the order groupby sorts them; rows whose
\* zip is NaN belong to no group
GroupKeys(rows, col) == SortedTexts({r[col] : r \in Range(rows)} \ {NaN})

\* app.py:85: sorted({int(x) for x in s}) of one group
GroupIds(rows, key) ==
    SortedInts({to_numeric(r["provider_id"]).v : r \in {x \in Range(rows) : x["zip"] = key}})

\* app.py:86-87: one assignment per group, the key normalised only here
RECURSIVE LongFold(_, _, _)
LongFold(keys, rows, m) ==
    IF Len(keys) = 0 THEN m
    ELSE LongFold(Tail(keys), rows,
                  DictSet(m, zfill(Str(keys[1]), ZipWidth), GroupIds(rows, keys[1])))

\* app.py:93-95: the numeric tokens of a provider_ids cell, as integers
RECURSIVE TokenInts(_)
TokenInts(toks) ==
    IF Len(toks) = 0 THEN {}
    ELSE (IF isdigit(strip(toks[1])) THEN {ToInt(toks[1])} ELSE {})
         \cup TokenInts(Tail(toks))

ParseIds(cell) ==
    TokenInts(split(Remove(Remove(Remove(Str(cell), "["), "]"), " "), ","))

\* app.py:89-96
RECURSIVE WideFold(_, _)
WideFold(rows, m) ==
    IF Len(rows) = 0 THEN m
    ELSE WideFold(Tail(rows),
                  DictSet(m, zfill(Str(rows[1]["zip"]), ZipWidth),
                          SortedInts(ParseIds(rows[1]["provider_ids"]))))

\* app.py:105-110
SplitCountyCell(val) ==
    IF Contains(val, ";") THEN StripPieces(split(val, ";"))
    ELSE IF Contains(val, ",") /\ ~endswith(strip(val), COUNTY_SUFFIX)
         THEN StripPieces(split(val, ","))
    ELSE <<strip(val)>>

\* app.py:101-111
RECURSIVE CountyFold(_, _, _)
CountyFold(rows, cand, m) ==
    IF Len(rows) = 0 THEN m
    ELSE LET val == rows[1][cand]
             z == zfill(Str(rows[1]["zip"]), ZipWidth)
         IN CountyFold(Tail(rows), cand,
                       IF val # NaN /\ Len(strip(val)) > 0
                       THEN DictSet(m, z, SplitCountyCell(val))
                       ELSE m)

NoResult == <<EmptyDict, EmptyDict>>

_load_zip_to_providers_from_unique(df) ==
    IF ~df.exists THEN NoResult
    ELSE IF "zip" \notin df.cols THEN NoResult
    ELSE LET long == "provider_id" \in df.cols
             rows == IF long THEN LongRows(df.rows) ELSE df.rows
             providers_map ==
                 IF long THEN LongFold(GroupKeys(rows, "zip"), rows, EmptyDict)
                 ELSE IF "provider_ids" \in df.cols THEN WideFold(rows, EmptyDict)
                 ELSE EmptyDict
             cand == FirstPresent(DIRECT_COUNTY_CANDIDATES, df.cols)
             counties_map ==
                 IF cand = NoCol THEN EmptyDict ELSE CountyFold(rows, cand, EmptyDict)
         IN <<providers_map, counties_map>>

-----------------------------------------------------------------------------
(* ZIP -> providers from the county merge: app.py:121-185 *)

COUNTY_FIPS_CANDIDATES == <<"county_fips", "geography_id", "county", "fips", "county_code">>
PROVIDER_ID_CANDIDATES == <<"provider_id", "providerid", "pid", "provider">>
COUNTY_NAME_CANDIDATES == <<"county_name", "geography_desc", "county", "name">>

county_fips_col(prov) == FirstPresent(COUNTY_FIPS_CANDIDATES, prov.cols)
provider_id_col(prov) == FirstPresent(PROVIDER_ID_CANDIDATES, prov.cols)
county_name_col(prov) == FirstPresent(COUNTY_NAME_CANDIDATES, prov.cols)

\* app.py:165: the labels DataFrame.merge renames to <label>_x and <label>_y,
\* those held by both frames; a join key of the same label on both sides
\* stays one column
Overlap(cross, prov) ==
    (cross.cols \cap prov.cols)
        \ (IF county_fips_col(prov) = "county" THEN {"county"} ELSE {})

\* app.py:153-165: the joined rows, as pairs <<crosswalk row, providers row>>
Merged(cross, prov) ==
    {<<c, p>> \in Range(cross.rows) \X Range(prov.rows) :
        /\ ~to_numeric(p[provider_id_col(prov)]).na
        /\ zfill(Str(c["county"]), ZipWidth)
              = zfill(Str(p[county_fips_col(prov)]), ZipWidth)}

MergedZips(merged) == {zfill(Str(cp[1]["zip"]), ZipWidth) : cp \in merged}

\* app.py:167-171
ZipProviders(merged, prov) ==
    [z \in MergedZips(merged) |->
        SortedInts({to_numeric(cp[2][provider_id_col(prov)]).v :
                      cp \in {x \in merged : zfill(Str(x[1]["zip"]), ZipWidth) = z}})]

\* the value of the county-name column in a joined row
MergedName(cp, prov) ==
    IF county_name_col(prov) = county_fips_col(prov)
    THEN zfill(Str(cp[2][county_name_col(prov)]), ZipWidth)
    ELSE cp[2][county_name_col(prov)]

\* app.py:175-179
ZipCounties(merged, prov) ==
    [z \in MergedZips(merged) |->
        SortedTexts({strip(Str(MergedName(cp, prov))) :
                       cp \in {x \in merged :
                                  /\ zfill(Str(x[1]["zip"]), ZipWidth) = z
                                  /\ MergedName(x, prov) # NaN}})]

\* the lookups of app.py:168 and app.py:176 that raise KeyError after the merge
MergeKeyError(cross, prov) ==
    \/ "zip" \in Overlap(cross, prov)
    \/ provider_id_col(prov) \in Overlap(cross, prov)
    \/ county_name_col(prov) \in Overlap(cross, prov)

_load_zip_to_providers_from_county_merge(prov, cross) ==
    IF ~prov.exists \/ ~cross.exists THEN NoResult
    ELSE IF county_fips_col(prov) = NoCol THEN NoResult
    ELSE IF provider_id_col(prov) = NoCol THEN NoResult
    ELSE IF "county" \notin cross.cols \/ "zip" \notin cross.cols THEN NoResult
    ELSE IF MergeKeyError(cross, prov) THEN NoResult
    ELSE LET merged == Merged(cross, prov)
         IN <<ZipProviders(merged, prov),
              IF county_name_col(prov) # NoCol THEN ZipCounties(merged, prov)
              ELSE EmptyDict>>

-----------------------------------------------------------------------------
(* Provider names: app.py:31-66 *)

NAME_FALLBACKS ==
    <<"provider_name", "brand_name", "doing_business_as", "holding_company_name">>

name_col(df) ==
    IF "holding_company" \in df.cols THEN "holding_company"
    ELSE FirstPresent(NAME_FALLBACKS, df.cols)

\* app.py:62: the dict comprehension, a later row replacing an earlier one
RECURSIVE NameFold(_, _, _)
NameFold(rows, col, m) ==
    IF Len(rows) = 0 THEN m
    ELSE LET r == rows[1]
         IN NameFold(Tail(rows), col,
                     IF r["provider_id"] # NaN /\ r[col] # NaN
                          /\ ~to_numeric(r["provider_id"]).na
                     THEN DictSet(m, to_numeric(r["provider_id"]).v, strip(Str(r[col])))
                     ELSE m)

ProviderNames(df) ==
    IF ~df.exists THEN EmptyDict
    ELSE IF "provider_id" \notin df.cols THEN EmptyDict
    ELSE IF name_col(df) = NoCol THEN EmptyDict
    ELSE NameFold(df.rows, name_col(df), EmptyDict)

-----------------------------------------------------------------------------
(* Loaders orchestration: app.py:188-203 *)

\* load_zip_to_providers with the two builders tried in the other order
load_zip_to_providers_join_first(fs) ==
    LET r1 == _load_zip_to_providers_from_unique(fs.direct)
        r2 == _load_zip_to_providers_from_county_merge(fs.prov, fs.cross)
    IN IF r2[1] # EmptyDict
       THEN [providers |-> r2[1], counties |-> r2[2],
             attempted |-> <<"COUNTY_JOIN">>, adopted |-> "COUNTY_JOIN"]
       ELSE IF r1[1] # EmptyDict
       THEN [providers |-> r1[1], counties |-> r1[2],
             attempted |-> <<"COUNTY_JOIN", "DIRECT">>, adopted |-> "DIRECT"]
       ELSE [providers |-> EmptyDict, counties |-> EmptyDict,
             attempted |-> <<"COUNTY_JOIN", "DIRECT">>, adopted |-> "NONE"]

\* the maps, the builders called and the builder kept
load_zip_to_providers(fs) ==
    LET r1 == _load_zip_to_providers_from_unique(fs.direct)
        r2 == _load_zip_to_providers_from_county_merge(fs.prov, fs.cross)
    IN IF r1[1] # EmptyDict
       THEN [providers |-> r1[1], counties |-> r1[2],
             attempted |-> <<"DIRECT">>, adopted |-> "DIRECT"]
       ELSE IF r2[1] # EmptyDict
       THEN [providers |-> r2[1], counties |-> r2[2],
             attempted |-> <<"DIRECT", "COUNTY_JOIN">>, adopted |-> "COUNTY_JOIN"]
       ELSE [providers |-> EmptyDict, counties |-> EmptyDict,
             attempted |-> <<"DIRECT", "COUNTY_JOIN">>, adopted |-> "NONE"]

-----------------------------------------------------------------------------
(* Query helpers: app.py:206-220 *)

\* app.py:212; the index holds integers only
IsIntLike(p) == p \in Int

\* providers_for_zip looking the maps up under the text as given
providers_for_zip_raw_key(zip_code) ==
    LET z == Str(zip_code)
        provs == DictGet(zip_to_providers, z, << >>)
        counties == DictGet(zip_to_counties, z, << >>)
    IN <<SortedInts(Range(SelectSeq(provs, IsIntLike))), counties>>

providers_for_zip(zip_code) ==
    LET z == zfill(Str(zip_code), ZipWidth)
        provs == DictGet(zip_to_providers, z, << >>)
        counties == DictGet(zip_to_counties, z, << >>)
    IN <<SortedInts(Range(SelectSeq(provs, IsIntLike))), counties>>

\* attach_names listing the IDs in descending order
attach_names_descending(provider_ids) ==
    LET ids == SortedInts(Range(provider_ids))
    IN [i \in 1..Len(ids) |->
           [provider_id |-> ids[Len(ids) + 1 - i],
            provider_name |-> DictGet(id_to_name, ids[Len(ids) + 1 - i], UNKNOWN_PROVIDER)]]

\* attach_names leaving out the IDs the directory does not hold
attach_names_known_only(provider_ids) ==
    LET ids == SortedInts(Range(provider_ids) \cap DOMAIN id_to_name)
    IN [i \in 1..Len(ids) |->
           [provider_id |-> ids[i], provider_name |-> id_to_name[ids[i]]]]

attach_names(provider_ids) ==
    LET ids == SortedInts(Range(provider_ids))
    IN [i \in 1..Len(ids) |->
           [provider_id |-> ids[i],
            provider_name |-> DictGet(id_to_name, ids[i], UNKNOWN_PROVIDER)]]

-----------------------------------------------------------------------------
(* The actions *)

NoRequest == [path |-> "none"]
NoResponse == [kind |-> "none"]

\* app.py:223
LoadProviderNames ==
    /\ pc = "load_provider_names"
    /\ id_to_name' = ProviderNames(files.names)
    /\ pc' = "load_zip_to_providers"
    /\ UNCHANGED <<files, zip_to_providers, zip_to_counties, attempted, adopted,
                   request, response>>

\* app.py:224
LoadZipToProviders ==
    /\ pc = "load_zip_to_providers"
    /\ LET r == load_zip_to_providers(files)
       IN /\ zip_to_providers' = r.providers
          /\ zip_to_counties' = r.counties
          /\ attempted' = r.attempted
          /\ adopted' = r.adopted
    /\ pc' = "serving"
    /\ UNCHANGED <<files, id_to_name, request, response>>

\* app.py:227-234
Health ==
    /\ pc = "serving"
    /\ request' = [path |-> "/health"]
    /\ response' = [kind |-> "health", status |-> 200, ok |-> TRUE,
                    providers_loaded |-> (id_to_name # EmptyDict),
                    providers_count |-> Cardinality(DOMAIN id_to_name),
                    zips_loaded |-> Cardinality(DOMAIN zip_to_providers)]
    /\ UNCHANGED <<files, id_to_name, zip_to_providers, zip_to_counties, pc,
                   attempted, adopted>>

\* the handler filling the index in for the ZIP it is asked about
ApiProvidersByZip_setdefault(zip, source) ==
    /\ pc = "serving"
    /\ Len(zip) >= MinZipLen
    /\ Len(zip) <= MaxZipLen
    /\ request' = [path |-> "/api/providers/by-zip", zip |-> zip, source |-> source]
    /\ LET r == providers_for_zip(zip)
       IN response' = [kind |-> "by_zip", status |-> 200,
                       zip |-> zfill(Str(zip), ZipWidth),
                       counties |-> r[2],
                       providers |-> attach_names(r[1]),
                       providers_count |-> Len(r[1]),
                       source |-> source]
    /\ zip_to_providers' =
           IF zfill(Str(zip), ZipWidth) \in DOMAIN zip_to_providers THEN zip_to_providers
           ELSE DictSet(zip_to_providers, zfill(Str(zip), ZipWidth), << >>)
    /\ UNCHANGED <<files, id_to_name, zip_to_counties, pc, attempted, adopted>>

\* app.py:236-251; the length guard is the Query validation of app.py:238.
\* dict.get, sorted and zfill raise on no value the maps can hold, so the
\* except clause of app.py:250 is never entered and the status is 200.
ApiProvidersByZip(zip, source) ==
    /\ pc = "serving"
    /\ Len(zip) >= MinZipLen
    /\ Len(zip) <= MaxZipLen
    /\ request' = [path |-> "/api/providers/by-zip", zip |-> zip, source |-> source]
    /\ LET r == providers_for_zip(zip)
       IN response' = [kind |-> "by_zip", status |-> 200,
                       zip |-> zfill(Str(zip), ZipWidth),
                       counties |-> r[2],
                       providers |-> attach_names(r[1]),
                       providers_count |-> Len(r[1]),
                       source |-> source]
    /\ UNCHANGED <<files, id_to_name, zip_to_providers, zip_to_counties, pc,
                   attempted, adopted>>

-----------------------------------------------------------------------------
(* The files the model starts from *)

Frame(cols, rows) == [exists |-> TRUE, cols |-> cols, rows |-> rows]
Absent == [exists |-> FALSE, cols |-> {}, rows |-> << >>]

\* the rows over the columns of cells, cells[c] being the cells of column c
RowsOf(cells) ==
    {r \in [DOMAIN cells -> UNION Range(cells)] : \A c \in DOMAIN cells : r[c] \in cells[c]}

SeqsUpTo(S, n) == UNION {[1..k -> S] : k \in 0..n}

\* every file of at most n rows over the columns of cells
FramesOf(cells, n) == {Frame(DOMAIN cells, rows) : rows \in SeqsUpTo(RowsOf(cells), n)}

Z1234 == <<"1", "2", "3", "4">>
Z01234 == <<"0", "1", "2", "3", "4">>
Z90001 == <<"9", "0", "0", "0", "1">>
T5 == <<"5">>
T7 == <<"7">>
T12 == <<"1", "2">>
TX == <<"x">>
F6037 == <<"6", "0", "3", "7">>
F06037 == <<"0", "6", "0", "3", "7">>
F36047 == <<"3", "6", "0", "4", "7">>
KINGS == <<"K", "i", "n", "g", "s">>
BRONX_PADDED == <<" ", "B", "r", "o", "n", "x", " ">>
ACME == <<"A", "c", "m", "e">>
BELL_PADDED == <<" ", "B", "e", "l", "l">>

DirectFiles ==
    {Absent}
    \cup FramesOf([zip |-> {Z1234, Z01234, Z90001}, provider_id |-> {T5, T7, TX}], MaxDirectRows)
    \cup FramesOf([zip |-> {Z1234, Z01234}, provider_id |-> {T5, TX},
                   county_name |-> {<<"B", ";", "A">>, <<"A">>, NaN}], MaxDirectRows)
    \cup FramesOf([zip |-> {Z1234, Z01234, Z90001},
                   provider_ids |-> {<<"[", "7", ",", " ", "5", "]">>,
                                     <<"5", ",", "5", ",", "x">>, NaN}], MaxDirectRows)
    \cup FramesOf([zip |-> {Z1234, Z90001},
                   provider_ids |-> {<<"1", "2", ",", "7">>},
                   county |-> {<<"B", ",", " ", "A">>,
                               <<"A", ",", " ", "B", " ", "C", "o", "u", "n", "t", "y">>,
                               <<"B", ";", ";", "B">>, <<" ", " ">>}], MaxDirectRows)
    \cup FramesOf([zip |-> {Z1234}, provider_id |-> {T7},
                   provider_ids |-> {<<"5">>}], MaxDirectRows)
    \cup FramesOf([provider_id |-> {T5}], MaxDirectRows)
    \cup FramesOf([zip |-> {Z1234}, county_name |-> {<<"A">>}], MaxDirectRows)

ProvFiles ==
    {Absent}
    \cup FramesOf([county_fips |-> {F6037, F06037, F36047}, provider_id |-> {T5, T7, TX}], MaxJoinRows)
    \cup FramesOf([county_fips |-> {F6037, F36047}, provider_id |-> {T5},
                   county_name |-> {KINGS, BRONX_PADDED, NaN}], MaxJoinRows)
    \cup FramesOf([county |-> {F6037, F06037}, provider |-> {T5, T7}], MaxJoinRows)
    \cup FramesOf([county_fips |-> {F6037}, county |-> {KINGS}, provider_id |-> {T5, T7}], MaxJoinRows)
    \cup FramesOf([county |-> {KINGS}, fips |-> {F6037}, provider_id |-> {T5, T7}], MaxJoinRows)
    \cup FramesOf([geography_id |-> {F6037, NaN}, geography_desc |-> {KINGS},
                   pid |-> {T12, T7}], MaxJoinRows)
    \cup FramesOf([name |-> {KINGS}, provider_id |-> {T5}], MaxJoinRows)
    \cup FramesOf([county_fips |-> {F6037}], MaxJoinRows)

CrossFiles ==
    {Absent}
    \cup FramesOf([county |-> {F6037, F36047}, zip |-> {Z1234, Z01234}], MaxJoinRows)
    \cup FramesOf([county |-> {F6037}], MaxJoinRows)

NameFiles ==
    {Absent,
     Frame({"holding_company"}, << >>),
     Frame({"provider_id", "holding_company"},
           <<[provider_id |-> T5, holding_company |-> ACME]>>),
     Frame({"provider_id", "provider_name"},
           <<[provider_id |-> T5, provider_name |-> ACME],
             [provider_id |-> T5, provider_name |-> BELL_PADDED],
             [provider_id |-> TX, provider_name |-> ACME],
             [provider_id |-> T12, provider_name |-> NaN]>>)}

NAMES_0 ==
    Frame({"provider_id", "holding_company"},
          <<[provider_id |-> T7, holding_company |-> BELL_PADDED]>>)

\* a valid county-join source, for the states whose Direct source is varied
PROV_0 ==
    Frame({"county_fips", "provider_id", "county_name"},
          <<[county_fips |-> F6037, provider_id |-> T7, county_name |-> KINGS],
            [county_fips |-> F06037, provider_id |-> T5, county_name |-> KINGS]>>)
CROSS_0 ==
    Frame({"county", "zip"},
          <<[county |-> F06037, zip |-> Z90001], [county |-> F6037, zip |-> Z1234]>>)

ZipInputs ==
    {<<"1", "2", "3">>, Z1234, Z01234, Z90001,
     <<"0", "1", "2", "3", "4", "5">>,
     <<"9", "0", "0", "0", "1", "6", "7", "8", "9", "0">>,
     <<"1", "2">>,
     <<"9", "0", "0", "0", "1", "6", "7", "8", "9", "0", "1">>}

SourceInputs == {DEFAULT_SOURCE, "county_merge"}

Booted ==
    /\ id_to_name = EmptyDict
    /\ zip_to_providers = EmptyDict
    /\ zip_to_counties = EmptyDict
    /\ pc = "load_provider_names"
    /\ attempted = << >>
    /\ adopted = "NONE"
    /\ request = NoRequest
    /\ response = NoResponse

\* the sources of Spec: both load paths, the shapes of each
LookupDirectFiles ==
    {Absent}
    \cup FramesOf([zip |-> {Z1234, Z01234}, provider_id |-> {T5, T7, TX}], MaxRows)
    \cup FramesOf([zip |-> {Z1234, Z90001},
                   provider_ids |-> {<<"[", "7", ",", " ", "5", "]">>, TX},
                   county |-> {<<"B", ";", "A">>}], MaxRows)
    \cup FramesOf([provider_id |-> {T5}], MaxRows)
    \cup FramesOf([zip |-> {Z1234}, county_name |-> {<<"A">>}], MaxRows)

LookupProvFiles ==
    {Absent}
    \cup FramesOf([county_fips |-> {F6037, F06037}, provider_id |-> {T5, T7},
                   county_name |-> {KINGS}], MaxRows)
    \cup FramesOf([name |-> {KINGS}, provider_id |-> {T5}], MaxRows)

LookupCrossFiles ==
    {Absent} \cup FramesOf([county |-> {F06037}, zip |-> {Z1234, Z90001}], MaxRows)

InitLookup ==
    /\ \/ \E d \in LookupDirectFiles, j \in {<<Absent, Absent>>, <<PROV_0, CROSS_0>>},
             n \in NameFiles :
             files = [names |-> n, direct |-> d, prov |-> j[1], cross |-> j[2]]
       \/ \E d \in {Absent, Frame({"zip", "provider_id"}, << >>)},
             p \in LookupProvFiles, c \in LookupCrossFiles,
             n \in {Absent, NAMES_0} :
             files = [names |-> n, direct |-> d, prov |-> p, cross |-> c]
    /\ Booted

\* the Direct source varies, the county-join source is absent or valid
InitDirect ==
    /\ \E d \in DirectFiles, j \in {<<Absent, Absent>>, <<PROV_0, CROSS_0>>},
          n \in NameFiles :
          files = [names |-> n, direct |-> d, prov |-> j[1], cross |-> j[2]]
    /\ Booted

\* the county-join source varies, the Direct source is absent or without rows
InitJoin ==
    /\ \E d \in {Absent, Frame({"zip", "provider_id"}, << >>)},
          p \in ProvFiles, c \in CrossFiles :
          files = [names |-> NAMES_0, direct |-> d, prov |-> p, cross |-> c]
    /\ Booted

Init == InitLookup

Next ==
    \/ LoadProviderNames
    \/ LoadZipToProviders
    \/ Health
    \/ \E zip \in ZipInputs, source \in SourceInputs : ApiProvidersByZip(zip, source)

Spec == Init /\ [][Next]_vars

SpecDirect == InitDirect /\ [][Next]_vars

SpecJoin == InitJoin /\ [][Next]_vars

-----------------------------------------------------------------------------
(* The claims *)

ByZip == response.kind = "by_zip"

ResponseIds == [i \in 1..Len(response.providers) |-> response.providers[i].provider_id]

\* C1: the providers list of every by-zip response is strictly ascending by
\* provider_id, whichever load path filled the index.
C1_ProvidersStrictlyAscending ==
    ByZip =>
        \A i, j \in 1..Len(response.providers) :
            i < j => response.providers[i].provider_id < response.providers[j].provider_id

\* a response listing two providers or more
C1_Witness == ByZip /\ Len(response.providers) >= 2

AllZeros(s) == \A i \in 1..Len(s) : s[i] = "0"

\* the maps read under the text of the response's zip field
LookedUpUnder(key) ==
    /\ response.counties = DictGet(zip_to_counties, key, << >>)
    /\ Range(ResponseIds) = Range(DictGet(zip_to_providers, key, << >>))

\* C2 as stated: for a zip of 3 to 10 digits the zip field has exactly 5
\* characters, is the input zero-padded, and is the key of the lookup.
C2_ZipFieldHasFiveCharacters ==
    (ByZip /\ isdigit(request.zip)) =>
        /\ Len(response.zip) = ZipWidth
        /\ LookedUpUnder(response.zip)

\* C2 amended: the zip field is the input with zeros put in front up to 5
\* characters, 5 characters long for an input of 3 to 5 digits and the input
\* itself, untruncated, for a longer one; the lookup reads both maps under it.
C2_ZipFieldIsPaddedNeverTruncated ==
    (ByZip /\ isdigit(request.zip)) =>
        LET given == request.zip
            out == response.zip
        IN /\ Len(out) = (IF Len(given) < ZipWidth THEN ZipWidth ELSE Len(given))
           /\ SubSeq(out, Len(out) - Len(given) + 1, Len(out)) = given
           /\ AllZeros(SubSeq(out, 1, Len(out) - Len(given)))
           /\ LookedUpUnder(out)

\* a 4-digit input answered from the entry stored under its padded form
C2_Witness ==
    /\ ByZip
    /\ request.zip = Z1234
    /\ response.zip = Z01234
    /\ response.providers_count > 0

\* C3: the source field names the load path that filled zip_to_providers; a
\* state loaded by County Join never yields the Direct label.
C3_SourceNamesLoadPath ==
    (ByZip /\ adopted = "COUNTY_JOIN") => response.source # DEFAULT_SOURCE

\* C4: Direct is tried first and kept if its provider index is non-empty, the
\* County Join builder then not being called; otherwise County Join is called
\* and its result kept; both maps come from the same builder.
C4_DirectFirstThenCountyJoin ==
    LET r1 == _load_zip_to_providers_from_unique(files.direct)
        r2 == _load_zip_to_providers_from_county_merge(files.prov, files.cross)
    IN IF pc # "serving"
       THEN attempted = << >> /\ zip_to_providers = EmptyDict /\ zip_to_counties = EmptyDict
       ELSE IF r1[1] # EmptyDict
       THEN attempted = <<"DIRECT">> /\ zip_to_providers = r1[1] /\ zip_to_counties = r1[2]
       ELSE /\ attempted = <<"DIRECT", "COUNTY_JOIN">>
            /\ zip_to_providers = r2[1]
            /\ zip_to_counties = r2[2]

\* the Direct file is there, gives county names but no provider, and the
\* County Join result is the one kept
C4_Witness ==
    /\ pc = "serving"
    /\ files.direct.exists
    /\ _load_zip_to_providers_from_unique(files.direct)[2] # EmptyDict
    /\ adopted = "COUNTY_JOIN"
    /\ zip_to_counties # EmptyDict

\* C5: once the load is over no request changes id_to_name, zip_to_providers
\* or zip_to_counties; the load runs once, and no request is answered before
\* it is over.
C5_RequestsLeaveTheMapsAlone ==
    [][/\ pc = "serving" =>
            /\ pc' = "serving"
            /\ UNCHANGED <<id_to_name, zip_to_providers, zip_to_counties>>
       /\ response' # response => pc = "serving"]_vars

\* a lookup of a ZIP the index does not hold, answered from loaded maps
C5_Witness ==
    /\ ByZip
    /\ zip_to_providers # EmptyDict
    /\ id_to_name # EmptyDict
    /\ response.zip \notin DOMAIN zip_to_providers

\* C6: a lookup answers 200; a ZIP in neither index gives no provider, a
\* count of 0 and no county; every ID the index holds for the ZIP is listed,
\* under its directory name or under the placeholder; the count is the
\* length of the list.
C6_UnknownsAreAnsweredNotRefused ==
    ByZip =>
        LET key == zfill(request.zip, ZipWidth)
        IN /\ response.status = 200
           /\ (key \notin DOMAIN zip_to_providers /\ key \notin DOMAIN zip_to_counties) =>
                  /\ response.providers = << >>
                  /\ response.providers_count = 0
                  /\ response.counties = << >>
           /\ \A p \in Range(DictGet(zip_to_providers, key, << >>)) :
                  \E i \in 1..Len(response.providers) :
                      /\ response.providers[i].provider_id = p
                      /\ response.providers[i].provider_name =
                             (IF p \in DOMAIN id_to_name THEN id_to_name[p]
                              ELSE UNKNOWN_PROVIDER)
           /\ response.providers_count = Len(response.providers)

\* a response naming one provider from the directory and one by the placeholder
C6_Witness ==
    /\ ByZip
    /\ \E i, j \in 1..Len(response.providers) :
           /\ response.providers[i].provider_id \in DOMAIN id_to_name
           /\ response.providers[j].provider_id \notin DOMAIN id_to_name
           /\ response.providers[j].provider_name = UNKNOWN_PROVIDER

\* the county-identifier candidates as the specification lists them
SPEC_COUNTY_ID_CANDIDATES == <<"county_fips", "geography_id", "fips", "county_code">>

DirectGivesNothing == _load_zip_to_providers_from_unique(files.direct)[1] = EmptyDict

CountyJoinFilesValid ==
    /\ files.prov.exists
    /\ files.cross.exists
    /\ {"county", "zip"} \subseteq files.cross.cols
    /\ FirstPresent(SPEC_COUNTY_ID_CANDIDATES, files.prov.cols) # NoCol
    /\ provider_id_col(files.prov) # NoCol

\* the integers p with a crosswalk row (c, z) and a providers row (c, p)
JoinedIds(z) ==
    LET id == FirstPresent(SPEC_COUNTY_ID_CANDIDATES, files.prov.cols)
        pid == provider_id_col(files.prov)
    IN {ToInt(r[pid]) :
          r \in {x \in Range(files.prov.rows) :
                   /\ x[pid] # NaN
                   /\ isdigit(x[pid])
                   /\ \E c \in Range(files.cross.rows) :
                          /\ zfill(Str(c["zip"]), ZipWidth) = z
                          /\ zfill(Str(c["county"]), ZipWidth) = zfill(Str(x[id]), ZipWidth)}}

FiveCharacterZips ==
    {z \in ZipInputs \cup {zfill(Str(c["zip"]), ZipWidth) : c \in Range(files.cross.rows)} :
        Len(z) = ZipWidth}

\* C7: with no Direct data and valid county-join files, the IDs returned for
\* a 5-character ZIP z are the integers p joined to z through a county, both
\* county identifiers zero-padded to width 5, ascending, without duplicates.
C7_CountyJoinIsTheInnerJoin ==
    (pc = "serving" /\ DirectGivesNothing /\ CountyJoinFilesValid) =>
        \A z \in FiveCharacterZips : providers_for_zip(z)[1] = SortedInts(JoinedIds(z))

\* the integer IDs of the long-format rows whose ZIP normalises to z
LongFormatIds(z) ==
    {ToInt(r["provider_id"]) :
       r \in {x \in Range(files.direct.rows) :
                /\ x["provider_id"] # NaN
                /\ isdigit(x["provider_id"])
                /\ x["zip"] # NaN
                /\ zfill(x["zip"], ZipWidth) = z}}

\* C8: from a long-format Direct source, the list stored under a normalised
\* ZIP z holds, ascending, all the distinct integer IDs of the rows whose ZIP
\* normalises to z.
C8_LongFormatGroupsByNormalisedZip ==
    (adopted = "DIRECT" /\ "provider_id" \in files.direct.cols) =>
        \A z \in DOMAIN zip_to_providers : zip_to_providers[z] = SortedInts(LongFormatIds(z))

\* C9: a providers file with none of county_fips, geography_id, fips,
\* county_code makes the County Join builder return two empty maps, and the
\* column taken as county identifier is never the county-name column too.
C9_CountyIdentifierFromFourCandidates ==
    (pc = "serving" /\ DirectGivesNothing /\ files.prov.exists /\ files.cross.exists) =>
        /\ FirstPresent(SPEC_COUNTY_ID_CANDIDATES, files.prov.cols) = NoCol =>
               (zip_to_providers = EmptyDict /\ zip_to_counties = EmptyDict)
        /\ (adopted = "COUNTY_JOIN" /\ county_name_col(files.prov) # NoCol) =>
               county_fips_col(files.prov) # county_name_col(files.prov)

StrictlySorted(names) ==
    \A i, j \in 1..Len(names) : i < j => LexLess(names[i], names[j])

\* the county names the rows of the adopted source give for ZIP z
ContributedNames(z) ==
    IF adopted = "DIRECT"
    THEN LET cand == FirstPresent(DIRECT_COUNTY_CANDIDATES, files.direct.cols)
             rows == IF "provider_id" \in files.direct.cols
                     THEN LongRows(files.direct.rows) ELSE files.direct.rows
         IN UNION {Range(SplitCountyCell(r[cand])) :
                     r \in {x \in Range(rows) :
                              /\ zfill(Str(x["zip"]), ZipWidth) = z
                              /\ x[cand] # NaN
                              /\ Len(strip(x[cand])) > 0}}
    ELSE {strip(Str(MergedName(cp, files.prov))) :
            cp \in {x \in Merged(files.cross, files.prov) :
                       /\ zfill(Str(x[1]["zip"]), ZipWidth) = z
                       /\ MergedName(x, files.prov) # NaN}}

\* C10: after the load every value of zip_to_counties is sorted, holds no
\* name twice, and holds the names of every source row of its ZIP.
C10_CountyNamesSortedAndComplete ==
    pc = "serving" =>
        \A z \in DOMAIN zip_to_counties :
            /\ StrictlySorted(zip_to_counties[z])
            /\ ContributedNames(z) \subseteq Range(zip_to_counties[z])

====
